---- MODULE Spec2Model ----
(***************************************************************************)
(* skong: marker-file status tracking of directory-based PBS jobs and the  *)
(* batch submission sweep (src/src/skong/core.py, src/src/skong/status.py).*)
(*                                                                         *)
(* The parent directory holds the entries Names.  Each entry is a regular  *)
(* file or a directory; a directory may hold the job script and the        *)
(* tracking directory .skong, which holds the marker files and             *)
(* history.jsonl.                                                          *)
(***************************************************************************)
EXTENDS Integers, Sequences, FiniteSets, TLC

VARIABLES
    isdir,           \* isdir[p]: the entry p of the parent is a directory
    hasjob,          \* hasjob[p]: p/job.pbs exists
    skong,           \* skong[p]: p/.skong is a directory
    markers,         \* markers[p]: the status files present in p/.skong
    submitted_file,  \* submitted_file[p]: the text of p/.skong/SUBMITTED
    history,         \* history[p]: the lines of p/.skong/history.jsonl
    sweep,           \* the submit_jobs call in progress (its local variables)
    procs,           \* procs[i]: the call of process i, when calls run concurrently
    ret              \* the outcome of the last completed call

vars == <<isdir, hasjob, skong, markers, submitted_file, history, sweep, procs, ret>>
fsvars == <<isdir, hasjob, skong, markers, submitted_file, history>>

----------------------------------------------------------------------------
(* Bounds and input samples *)

MaxHist == 2      \* lines a history file may reach before log is disabled
MaxLimit == 2     \* largest limit passed to submit_jobs
MaxOut == 4       \* most characters qsub prints, where every text is tried

Names == {"a", "b", "c"}

\* Code points of the entry names: sorted() orders Path objects by their text.
Ord == [a |-> 97, b |-> 98, c |-> 99]

Limits == (0 - 1) .. MaxLimit

\* datetime.now().strftime("%Y-%m-%d %H:%M:%S") at the moment of a submission
Timestamps == {"2026-01-01 10:00:00", "2026-01-01 10:00:01"}

\* texts qsub may print on its standard output, as sequences of characters
QsubOutputs ==
    { <<"9", "8", "7", "6", ".", "s", "e", "r", "v", "e", "r", "1">>,
      <<" ", "4", "2", "\n">> }

----------------------------------------------------------------------------
(* status.py *)

INITIALIZED == "INITIALIZED"
FINISHED == "FINISHED"
RUNNING == "RUNNING"
DONE == "DONE"
SUBMITTED == "SUBMITTED"
FAILED == "FAILED"
PARTIAL == "PARTIAL"

\* The members of the enum in declaration order (the order of `for s in Status`).
StatusOrder == <<INITIALIZED, FINISHED, RUNNING, DONE, SUBMITTED, FAILED, PARTIAL>>

Status == {StatusOrder[i] : i \in 1 .. Len(StatusOrder)}

\* target statuses the command surface passes to submit_jobs (sub, continue)
CliTargets == {INITIALIZED, PARTIAL}

\* target statuses passed to submit_jobs by a caller of the library
SubmitTargets == CliTargets \cup {SUBMITTED}

\* the statuses the entries of a swept parent directory start in
SweepStatuses == {INITIALIZED, RUNNING, PARTIAL, SUBMITTED}

----------------------------------------------------------------------------
(* JSON values and json.dumps *)

JStr(s) == [t |-> "str", s |-> s, n |-> 0]
JInt(n) == [t |-> "int", s |-> "", n |-> n]

\* The characters json.dumps (ensure_ascii) escapes besides the double quote
\* and the backslash are those outside U+0020..U+007E.  C0 lists U+0001..U+001F
\* in order and C1 holds U+007F..U+00FF; U+0000 and the characters above
\* U+00FF cannot be written in a string of this module.
C0 == <<"", "", "", "", "", "", "", "", "\t", "\n", "", "\f", "\r", "", "", "", "", "", "", "", "", "", "", "", "", "", "", "", "", "", "">>

C1 == " ¡¢£¤¥¦§¨©ª«¬­®¯°±²³´µ¶·¸¹º»¼½¾¿ÀÁÂÃÄÅÆÇÈÉÊËÌÍÎÏÐÑÒÓÔÕÖ×ØÙÚÛÜÝÞßàáâãäåæçèéêëìíîïðñòóôõö÷øùúûüýþÿ"

NonPrintable == (1 .. 31) \cup (127 .. 255)

chr(n) == IF n <= 31 THEN C0[n] ELSE SubSeq(C1, n - 126, n - 126)

HexDigits == "0123456789abcdef"

\* '{0:02x}'.format(n)
hex2(n) == SubSeq(HexDigits, (n \div 16) + 1, (n \div 16) + 1)
           \o SubSeq(HexDigits, (n % 16) + 1, (n % 16) + 1)

\* json.encoder: ESCAPE_DCT and the \u00XX fallback of py_encode_basestring_ascii
ESCAPE_DCT ==
    [ch \in {"\"", "\\"} \cup {chr(n) : n \in NonPrintable} |->
        CASE ch = "\"" -> "\\\""
          [] ch = "\\" -> "\\\\"
          [] ch = "\n" -> "\\n"
          [] ch = "\r" -> "\\r"
          [] ch = "\t" -> "\\t"
          [] ch = "\f" -> "\\f"
          [] ch = chr(8) -> "\\b"
          [] OTHER -> "\\u00" \o hex2(CHOOSE n \in NonPrintable : chr(n) = ch)]

RECURSIVE escape(_)
escape(s) ==
    IF s = "" THEN ""
    ELSE LET ch == SubSeq(s, 1, 1)
         IN  (IF ch \in DOMAIN ESCAPE_DCT THEN ESCAPE_DCT[ch] ELSE ch)
             \o escape(SubSeq(s, 2, Len(s)))

\* json.dumps of a str
Quote(s) == "\"" \o escape(s) \o "\""

json_dumps_value(v) == IF v.t = "str" THEN Quote(v.s) ELSE ToString(v.n)

RECURSIVE json_dumps_items(_)
json_dumps_items(items) ==
    IF items = <<>> THEN ""
    ELSE Quote(items[1][1]) \o ": " \o json_dumps_value(items[1][2])
         \o (IF Len(items) > 1 THEN ", " ELSE "")
         \o json_dumps_items(Tail(items))

\* json.dumps of a dict, given as the sequence of its <<key, value>> items
json_dumps(entry) == "{" \o json_dumps_items(entry) \o "}"

\* entries a caller passes to log
UserEntries ==
    { << <<"step", JInt(1)>> >>,
      << <<"event", JStr("note")>>, <<"step", JInt(2)>> >> }

----------------------------------------------------------------------------
(* core.py: the project store *)

None == "None"

Ret(op, err, val) == [op |-> op, err |-> err, val |-> val]

\* no call has completed yet, or a submit_jobs call is in progress
NoRet == Ret("", "", None)

IdleSweep ==
    [pc |-> "idle", target |-> None, limit |-> 0, limit_in |-> 0, restart |-> 0,
     candidates |-> <<>>, listed |-> <<>>, visited |-> <<>>, submitted |-> <<>>,
     broke |-> "", before |-> <<>>, stdout |-> <<>>]

\* the processes that call the library at the same time
ProcIds == {1, 2}

\* The local variables of a call that runs concurrently with another: those
\* of submit_jobs (as in sweep, with the candidate being submitted), those of
\* set_status (path, status, k: the member the loop is at, found: the result
\* of exists()), and err, the exception that ended the call.  overlapped and
\* latest record the order of events: the call began while the other was in
\* progress; after: the call began when the other had finished; latest holds the directories whose latest marker this call wrote.
\* entries and matches are the locals of list_status: the sorted entries still
\* to examine and the matches found.  orphan: the SUBMITTED file this call
\* holds open has been unlinked since it was opened.
IdleProc ==
    [pc |-> "idle", target |-> None, limit |-> 0, limit_in |-> 0, restart |-> 0,
     entries |-> <<>>, matches |-> <<>>, orphan |-> FALSE,
     candidates |-> <<>>, listed |-> <<>>, visited |-> <<>>, submitted |-> <<>>,
     broke |-> "", child |-> None, job_id |-> "", timestamp |-> "",
     path |-> None, status |-> None, k |-> 0, found |-> FALSE, err |-> "",
     overlapped |-> FALSE, after |-> FALSE, latest |-> {}]

NoProcs == [i \in ProcIds |-> IdleProc]

\* the files under the parent directory, as a record; sweep.before holds
\* those found when the submit_jobs call in progress began
Files ==
    [isdir |-> isdir, hasjob |-> hasjob, skong |-> skong, markers |-> markers,
     submitted_file |-> submitted_file, history |-> history]

\* No submit_jobs call is in progress: calls do not interleave.
Idle == sweep.pc = "idle"

\* Mutant of require_initialized: the check is missing.
require_nothing(p) == TRUE

\* _require_initialized: TRUE when it returns, FALSE when it raises
require_initialized(p) == skong[p]

\* Mutant of remove_status_files: the loop stops after the first unlink.
remove_first_status_file(ms) ==
    {m \in ms : \E i \in 1 .. Len(StatusOrder) :
                   /\ StatusOrder[i] \in ms
                   /\ StatusOrder[i] # m
                   /\ \A j \in 1 .. (i - 1) : StatusOrder[j] \notin ms}

\* set_status, lines 54-58: unlink every status file that exists
remove_status_files(ms) == {m \in ms : m \notin Status}

\* Mutant of set_status_markers: the old status files are kept.
set_status_markers_keep(ms, status) == ms \cup {status}

\* set_status, lines 54-61: the status files after the call
set_status_markers(ms, status) == remove_status_files(ms) \cup {status}

\* Mutant of read_status_markers: the loop keeps the last member found.
read_status_markers_last(ms) ==
    IF \E i \in 1 .. Len(StatusOrder) : StatusOrder[i] \in ms
    THEN StatusOrder[CHOOSE i \in 1 .. Len(StatusOrder) :
                        /\ StatusOrder[i] \in ms
                        /\ \A j \in (i + 1) .. Len(StatusOrder) : StatusOrder[j] \notin ms]
    ELSE None

\* read_status, lines 73-76: the first member, in declaration order, whose
\* file exists, or None
read_status_markers(ms) ==
    IF \E i \in 1 .. Len(StatusOrder) : StatusOrder[i] \in ms
    THEN StatusOrder[CHOOSE i \in 1 .. Len(StatusOrder) :
                        /\ StatusOrder[i] \in ms
                        /\ \A j \in 1 .. (i - 1) : StatusOrder[j] \notin ms]
    ELSE None

\* Mutant of log_lines: the line is written twice.
log_lines_twice(lines, entry) ==
    lines \o <<json_dumps(entry) \o "\n", json_dumps(entry) \o "\n">>

\* Mutant of log_lines: the file is opened with "w" and truncated.
log_lines_truncate(lines, entry) == <<json_dumps(entry) \o "\n">>

\* log, lines 84-86: the history file after appending one JSON line
log_lines(lines, entry) == Append(lines, json_dumps(entry) \o "\n")

\* The error of set_status(INITIALIZED) when .skong is absent: touch() opens
\* p/.skong/INITIALIZED, whose parent does not exist (or p is a regular file).
touch_error(p) == IF isdir[p] THEN "FileNotFoundError" ELSE "NotADirectoryError"

\* init(p)
Init_(p) ==
    /\ Idle
    /\ IF ~isdir[p]
       THEN \* mkdir of p/.skong under a regular file
            /\ ret' = Ret("init", "NotADirectoryError", None)
            /\ UNCHANGED <<skong, markers, submitted_file>>
       ELSE /\ skong' = [skong EXCEPT ![p] = TRUE]
            /\ markers' = [markers EXCEPT ![p] = set_status_markers(@, INITIALIZED)]
            /\ submitted_file' = [submitted_file EXCEPT ![p] = ""]
            /\ ret' = Ret("init", "", p)
    /\ UNCHANGED <<isdir, hasjob, history, sweep, procs>>

\* set_status(status, path=p)
SetStatus(status, p) ==
    /\ Idle
    /\ IF status # INITIALIZED /\ ~require_initialized(p)
       THEN /\ ret' = Ret("set_status", "NotInitialized", None)
            /\ UNCHANGED <<markers, submitted_file>>
       ELSE IF ~skong[p]
       THEN /\ ret' = Ret("set_status", touch_error(p), None)
            /\ UNCHANGED <<markers, submitted_file>>
       ELSE /\ markers' = [markers EXCEPT ![p] = set_status_markers(@, status)]
            /\ submitted_file' = [submitted_file EXCEPT ![p] = ""]
            /\ ret' = Ret("set_status", "", None)
    /\ UNCHANGED <<isdir, hasjob, skong, history, sweep, procs>>

\* read_status(p)
ReadStatus(p) ==
    /\ Idle
    /\ IF ~require_initialized(p)
       THEN ret' = Ret("read_status", "NotInitialized", None)
       ELSE ret' = Ret("read_status", "", read_status_markers(markers[p]))
    /\ UNCHANGED <<fsvars, sweep, procs>>

\* log(entry, path=p)
Log(entry, p) ==
    /\ Idle
    /\ Len(history[p]) < MaxHist
    /\ IF ~require_initialized(p)
       THEN /\ ret' = Ret("log", "NotInitialized", None)
            /\ UNCHANGED history
       ELSE /\ history' = [history EXCEPT ![p] = log_lines(@, entry)]
            /\ ret' = Ret("log", "", None)
    /\ UNCHANGED <<isdir, hasjob, skong, markers, submitted_file, sweep, procs>>

----------------------------------------------------------------------------
(* core.py: batch operations *)

Range(f) == {f[i] : i \in DOMAIN f}

\* Mutant of sorted: descending order.
RECURSIVE sorted_reverse(_)
sorted_reverse(S) ==
    IF S = {} THEN <<>>
    ELSE LET m == CHOOSE x \in S : \A y \in S : Ord[x] >= Ord[y]
         IN  <<m>> \o sorted_reverse(S \ {m})

\* sorted(): ascending order of the entry names
RECURSIVE sorted(_)
sorted(S) ==
    IF S = {} THEN <<>>
    ELSE LET m == CHOOSE x \in S : \A y \in S : Ord[x] <= Ord[y]
         IN  <<m>> \o sorted(S \ {m})

\* Mutant of marker_exists: the status file is not looked at.
marker_exists_always(status, child) == TRUE

\* list_status, line 115: (skong / status.value).exists()
marker_exists(status, child) == status \in markers[child]

\* list_status, lines 110-116: the filter applied to one child
list_status_match(status, child) ==
    /\ isdir[child]
    /\ skong[child]
    /\ marker_exists(status, child)

\* Mutant of list_status: the children are not sorted, and come in
\* descending order.
list_status_unsorted(status) ==
    SelectSeq(sorted_reverse(Names), LAMBDA child : list_status_match(status, child))

\* list_status(status, path=parent)
list_status(status) ==
    SelectSeq(sorted(Names), LAMBDA child : list_status_match(status, child))

\* Mutant of restart_flag: the test names the wrong status.
restart_flag_initialized(target_status) ==
    IF target_status = INITIALIZED THEN 1 ELSE 0

\* submit_jobs, line 148
restart_flag(target_status) == IF target_status = PARTIAL THEN 1 ELSE 0

\* The characters str.strip() removes: str.isspace() below U+0100.  The spaces
\* above U+00FF (U+1680, U+2000..U+200A, U+2028, U+2029, U+202F, U+205F,
\* U+3000) are not characters of this module.
Whitespace == {" "} \cup {chr(n) : n \in (9 .. 13) \cup (28 .. 31) \cup {133, 160}}

RECURSIVE lstrip(_)
lstrip(cs) ==
    IF cs # <<>> /\ Head(cs) \in Whitespace THEN lstrip(Tail(cs)) ELSE cs

RECURSIVE rstrip(_)
rstrip(cs) ==
    IF cs # <<>> /\ cs[Len(cs)] \in Whitespace
    THEN rstrip(SubSeq(cs, 1, Len(cs) - 1))
    ELSE cs

\* str.strip()
strip(cs) == rstrip(lstrip(cs))

\* str.split(".")[0]: the characters before the first "."
RECURSIVE split_first(_)
split_first(cs) ==
    IF cs = <<>> \/ Head(cs) = "." THEN <<>>
    ELSE <<Head(cs)>> \o split_first(Tail(cs))

\* the characters of a text as one string
RECURSIVE text(_)
text(cs) == IF cs = <<>> THEN "" ELSE Head(cs) \o text(Tail(cs))

\* Mutant of parse_job_id: the output is not stripped.
parse_job_id_unstripped(stdout) ==
    text(IF stdout # <<>> THEN split_first(stdout) ELSE stdout)

\* submit_jobs, lines 177-178
parse_job_id(stdout) ==
    LET raw_id == strip(stdout)
    IN  text(IF raw_id # <<>> THEN split_first(raw_id) ELSE raw_id)

\* Mutant of submit_markers: the old marker is not unlinked.
submit_markers_keep(ms, target_status) == ms \cup {SUBMITTED}

\* submit_jobs, lines 197-203: the status files of the child after the
\* old marker is unlinked (missing_ok) and SUBMITTED is written
submit_markers(ms, target_status) == (ms \ {target_status}) \cup {SUBMITTED}

\* submit_jobs, lines 201-203: the text written into SUBMITTED
submitted_text(timestamp, job_id) ==
    "Timestamp: " \o timestamp \o "\nJob ID: " \o job_id \o "\n"

\* submit_jobs, lines 207-213: the history entry of a submission
submit_entry(job_id, timestamp, restart, target_status) ==
    << <<"event", JStr("submitted")>>,
       <<"job_id", JStr(job_id)>>,
       <<"timestamp", JStr(timestamp)>>,
       <<"restart", JInt(restart)>>,
       <<"previous_status", JStr(target_status)>> >>

\* submit_jobs, lines 221-223: the record added to the return value
submit_record(child, job_id, timestamp) ==
    [dir |-> child, job_id |-> job_id, timestamp |-> timestamp]

\* list_status(status, path=parent) as a call of its own
ListStatus(status) ==
    /\ Idle
    /\ ret' = Ret("list_status", "", list_status(status))
    /\ UNCHANGED <<fsvars, sweep, procs>>

\* submit_jobs, lines 147-151: entry into the call
SubmitStart(target_status, limit) ==
    /\ Idle
    /\ LET candidates == list_status(target_status)
       IN  /\ \A c \in Range(candidates) : Len(history[c]) < MaxHist
           /\ sweep' = [pc |-> "loop", target |-> target_status, limit |-> limit,
                        limit_in |-> limit,
                        restart |-> restart_flag(target_status),
                        candidates |-> candidates, listed |-> candidates,
                        visited |-> <<>>, submitted |-> <<>>, broke |-> "",
                        before |-> Files, stdout |-> <<>>]
    /\ ret' = NoRet
    /\ UNCHANGED <<fsvars, procs>>

\* The loop is at the top of an iteration for the next candidate.
AtCandidate ==
    /\ sweep.pc = "loop"
    /\ sweep.broke = ""
    /\ sweep.candidates # <<>>

Visit(child, outcome) == [dir |-> child, outcome |-> outcome]

\* Mutant of limit_exhausted: the test is off by one.
limit_exhausted_late(limit) == limit < 0

\* line 154: the test that ends the loop
limit_exhausted(limit) == limit <= 0

\* lines 159-164: `continue` past a candidate without its job script
skip_sweep(sw) ==
    [sw EXCEPT !.candidates = Tail(@),
               !.visited = Append(@, Visit(Head(sw.candidates), "noscript"))]

\* Mutant of not_found_sweep: `continue` in place of `break`.
not_found_continue(sw) ==
    [sw EXCEPT !.candidates = Tail(@),
               !.visited = Append(@, Visit(Head(sw.candidates), "notfound"))]

\* lines 179-184: `break` when qsub is not installed
not_found_sweep(sw) ==
    [sw EXCEPT !.broke = "notfound",
               !.visited = Append(@, Visit(Head(sw.candidates), "notfound"))]

\* Mutant of failed_sweep: the failed submission is counted against limit.
failed_sweep_charged(sw) ==
    [sw EXCEPT !.candidates = Tail(@),
               !.limit = @ - 1,
               !.visited = Append(@, Visit(Head(sw.candidates), "failed"))]

\* Mutant of failed_sweep: `break` in place of `continue`.
failed_break(sw) ==
    [sw EXCEPT !.broke = "failed",
               !.visited = Append(@, Visit(Head(sw.candidates), "failed"))]

\* lines 185-190: `continue` when qsub exits non-zero
failed_sweep(sw) ==
    [sw EXCEPT !.candidates = Tail(@),
               !.visited = Append(@, Visit(Head(sw.candidates), "failed"))]

\* lines 154-156: the budget is exhausted, break
LimitReached ==
    /\ AtCandidate
    /\ limit_exhausted(sweep.limit)
    /\ sweep' = [sweep EXCEPT !.broke = "limit"]
    /\ UNCHANGED <<fsvars, procs, ret>>

\* lines 158-164: the job script is absent, continue
SkipNoScript ==
    /\ AtCandidate
    /\ ~limit_exhausted(sweep.limit)
    /\ ~hasjob[Head(sweep.candidates)]
    /\ sweep' = skip_sweep(sweep)
    /\ UNCHANGED <<fsvars, procs, ret>>

\* lines 179-184: qsub is not installed, break
QsubNotFound ==
    /\ AtCandidate
    /\ ~limit_exhausted(sweep.limit)
    /\ hasjob[Head(sweep.candidates)]
    /\ sweep' = not_found_sweep(sweep)
    /\ UNCHANGED <<fsvars, procs, ret>>

\* lines 185-190: qsub exits non-zero, continue
QsubFailed ==
    /\ AtCandidate
    /\ ~limit_exhausted(sweep.limit)
    /\ hasjob[Head(sweep.candidates)]
    /\ sweep' = failed_sweep(sweep)
    /\ UNCHANGED <<fsvars, procs, ret>>

\* lines 176-178 and 192-224: qsub prints stdout and exits zero
QsubSuccess(stdout, timestamp) ==
    /\ AtCandidate
    /\ ~limit_exhausted(sweep.limit)
    /\ hasjob[Head(sweep.candidates)]
    /\ LET child == Head(sweep.candidates)
           job_id == parse_job_id(stdout)
       IN  /\ markers' = [markers EXCEPT ![child] = submit_markers(@, sweep.target)]
           /\ submitted_file' = [submitted_file EXCEPT
                                   ![child] = submitted_text(timestamp, job_id)]
           /\ history' = [history EXCEPT ![child] =
                            log_lines(@, submit_entry(job_id, timestamp,
                                                      sweep.restart, sweep.target))]
           /\ sweep' = [sweep EXCEPT
                          !.candidates = Tail(@),
                          !.visited = Append(@, Visit(child, "submitted")),
                          !.submitted = Append(@, submit_record(child, job_id, timestamp)),
                          !.limit = @ - 1,
                          !.stdout = stdout]
    /\ UNCHANGED <<isdir, hasjob, skong, procs, ret>>

\* line 226: the loop has ended, return submitted
SubmitReturn ==
    /\ sweep.pc = "loop"
    /\ sweep.broke # "" \/ sweep.candidates = <<>>
    /\ ret' = Ret("submit_jobs", "", sweep.submitted)
    /\ sweep' = IdleSweep
    /\ UNCHANGED <<fsvars, procs>>

----------------------------------------------------------------------------
(* Spec: calls made one at a time on a parent directory that holds the     *)
(* directory a, not yet initialized, and the regular files b and c.        *)

Init ==
    /\ isdir = [p \in Names |-> p = "a"]
    /\ hasjob \in [Names -> BOOLEAN]
    /\ \A p \in Names : hasjob[p] => isdir[p]
    /\ skong = [p \in Names |-> FALSE]
    /\ markers = [p \in Names |-> {}]
    /\ submitted_file = [p \in Names |-> ""]
    /\ history = [p \in Names |-> <<>>]
    /\ sweep = IdleSweep
    /\ procs = NoProcs
    /\ ret = NoRet

SweepStep ==
    \/ LimitReached
    \/ SkipNoScript
    \/ QsubNotFound
    \/ QsubFailed
    \/ \E stdout \in QsubOutputs, timestamp \in Timestamps : QsubSuccess(stdout, timestamp)
    \/ SubmitReturn

Next ==
    \/ \E p \in Names : Init_(p)
    \/ \E status \in Status, p \in Names : SetStatus(status, p)
    \/ \E p \in Names : ReadStatus(p)
    \/ \E entry \in UserEntries, p \in Names : Log(entry, p)
    \/ \E status \in Status : ListStatus(status)
    \/ \E target_status \in SubmitTargets, limit \in Limits : SubmitStart(target_status, limit)
    \/ SweepStep

Spec == Init /\ [][Next]_vars

----------------------------------------------------------------------------
(* SpecSweep: list_status and submit_jobs on a parent directory whose      *)
(* entries are in any state the store operations leave them in: a regular  *)
(* file, a directory without .skong, or a project with one marker.         *)

SweepInit ==
    /\ isdir \in [Names -> BOOLEAN]
    /\ hasjob \in [Names -> BOOLEAN]
    /\ skong \in [Names -> BOOLEAN]
    /\ \A p \in Names : (hasjob[p] => isdir[p]) /\ (skong[p] => isdir[p])
    /\ markers \in [Names -> {{}} \cup {{s} : s \in SweepStatuses}]
    /\ \A p \in Names : skong[p] <=> markers[p] # {}
    /\ submitted_file = [p \in Names |-> ""]
    /\ history = [p \in Names |-> <<>>]
    /\ sweep = IdleSweep
    /\ procs = NoProcs
    /\ ret = NoRet

NextSweep ==
    \/ \E status \in Status : ListStatus(status)
    \/ \E target_status \in CliTargets, limit \in Limits : SubmitStart(target_status, limit)
    \/ SweepStep

SpecSweep == SweepInit /\ [][NextSweep]_vars

----------------------------------------------------------------------------
(* SpecExternal: the store operations on the project a, together with a    *)
(* writer outside the program that creates marker files by hand, so that   *)
(* several markers can coexist in one tracking directory.                  *)

\* a marker file created in p/.skong without going through set_status
ExternalTouch(status, p) ==
    /\ Idle
    /\ skong[p]
    /\ status \notin markers[p]
    /\ markers' = [markers EXCEPT ![p] = @ \cup {status}]
    /\ UNCHANGED <<isdir, hasjob, skong, submitted_file, history, sweep, procs, ret>>

\* a marker file removed from p/.skong by hand
ExternalUnlink(status, p) ==
    /\ Idle
    /\ skong[p]
    /\ status \in markers[p]
    /\ markers' = [markers EXCEPT ![p] = @ \ {status}]
    /\ submitted_file' = [submitted_file EXCEPT
                            ![p] = IF status = SUBMITTED THEN "" ELSE @]
    /\ UNCHANGED <<isdir, hasjob, skong, history, sweep, procs, ret>>

NextExternal ==
    \/ \E p \in Names : Init_(p)
    \/ \E status \in Status, p \in Names : SetStatus(status, p)
    \/ \E p \in Names : ReadStatus(p)
    \/ \E entry \in UserEntries, p \in Names : Log(entry, p)
    \/ \E status \in Status, p \in Names : ExternalTouch(status, p)
    \/ \E status \in Status, p \in Names : ExternalUnlink(status, p)

SpecExternal == Init /\ [][NextExternal]_vars

----------------------------------------------------------------------------
(* Claims *)

\* C1: for every status S and every initialized project, whatever markers
\* existed before, a set_status(S) that returns leaves read_status = S and
\* exactly one marker file in the tracking directory.
C1_SetThenRead ==
    [][\A status \in Status, p \in Names :
          (skong[p] /\ SetStatus(status, p)) =>
              /\ ret'.err = ""
              /\ read_status_markers(markers'[p]) = status
              /\ Cardinality(markers'[p]) = 1]_vars

\* set_status(FAILED) has returned on the project a
C1_Witness ==
    /\ ret = Ret("set_status", "", None)
    /\ skong["a"]
    /\ markers["a"] = {FAILED}

\* C2: in every state reached by init, set_status, log and submit_jobs
\* calls made one at a time, each tracking directory holds at most one
\* status marker file.
C2_AtMostOneMarker ==
    \A p \in Names : Cardinality(markers[p]) <= 1

\* a project that was logged to and then submitted by a sweep
C2_Witness ==
    /\ ret.op = "submit_jobs"
    /\ Len(ret.val) = 1
    /\ markers["a"] = {SUBMITTED}
    /\ Len(history["a"]) = 2

\* the candidates of the sweep in progress that are marked SUBMITTED
Moved == {c \in Range(sweep.listed) : SUBMITTED \in markers[c]}

\* C3: for every non-negative limit, one submit_jobs call submits at most
\* limit jobs: neither the success records it gathers and returns nor the
\* directories it moves to SUBMITTED outnumber limit (none with limit 0).
C3_LimitRespected ==
    /\ [](sweep.pc = "loop" /\ sweep.limit_in >= 0 =>
            /\ Len(sweep.submitted) <= sweep.limit_in
            /\ Cardinality(Moved) <= sweep.limit_in)
    /\ [][SubmitReturn /\ sweep.limit_in >= 0 =>
            Len(ret'.val) <= sweep.limit_in]_vars

\* three candidates matched, the limit was 2 and the loop stopped on it
C3_Witness ==
    /\ sweep.pc = "loop"
    /\ Len(sweep.listed) = 3
    /\ sweep.limit_in = 2
    /\ sweep.broke = "limit"
    /\ Len(sweep.submitted) = 2

\* the job id expected for each sampled qsub output
C4_JobId(stdout) ==
    IF stdout = <<"9", "8", "7", "6", ".", "s", "e", "r", "v", "e", "r", "1">>
    THEN "9876"
    ELSE "42"

\* the history line expected for a submission
C4_Line(job_id, timestamp, restart, previous_status) ==
    "{\"event\": \"submitted\", \"job_id\": \"" \o job_id
    \o "\", \"timestamp\": \"" \o timestamp
    \o "\", \"restart\": " \o (IF restart = 1 THEN "1" ELSE "0")
    \o ", \"previous_status\": \"" \o previous_status \o "\"}\n"

\* C4: when qsub succeeds for a candidate, the step leaves SUBMITTED as the
\* candidate's only marker, appends exactly one history line (event
\* "submitted", the parsed job id, previous_status = target_status, restart
\* = 1 iff the target is PARTIAL) and adds one record with the same
\* directory, job id and timestamp to the records to return.
C4_SuccessStep ==
    [][\A stdout \in QsubOutputs, timestamp \in Timestamps :
          QsubSuccess(stdout, timestamp) =>
              LET child == Head(sweep.candidates)
                  job_id == C4_JobId(stdout)
                  restart == IF sweep.target = PARTIAL THEN 1 ELSE 0
              IN  /\ markers'[child] = {SUBMITTED}
                  /\ sweep.target # SUBMITTED => sweep.target \notin markers'[child]
                  /\ history'[child] =
                        Append(history[child],
                               C4_Line(job_id, timestamp, restart, sweep.target))
                  /\ sweep'.submitted =
                        Append(sweep.submitted,
                               [dir |-> child, job_id |-> job_id,
                                timestamp |-> timestamp])]_vars

\* a PARTIAL project was resubmitted and qsub printed "9876.server1"
C4_Witness ==
    /\ sweep.pc = "loop"
    /\ sweep.target = PARTIAL
    /\ sweep.submitted = <<[dir |-> "a", job_id |-> "9876",
                            timestamp |-> "2026-01-01 10:00:01"]>>
    /\ markers["a"] = {SUBMITTED}
    /\ history["a"] # <<>>
    /\ history["a"][Len(history["a"])] =
          C4_Line("9876", "2026-01-01 10:00:01", 1, PARTIAL)

\* the last candidate the loop dealt with
LastVisit == sweep.visited[Len(sweep.visited)]

\* C5: when qsub is not found the sweep aborts: the step changes no file and
\* gathers no record, the candidate at hand and every later one keep marker
\* and history, and the only step that follows is the return of exactly the
\* records gathered so far (no further candidate is dealt with).
C5_NotFoundAborts ==
    /\ [][QsubNotFound =>
            /\ UNCHANGED fsvars
            /\ sweep'.submitted = sweep.submitted]_vars
    /\ [][sweep.pc = "loop" /\ sweep.visited # <<>>
            /\ LastVisit.outcome = "notfound" =>
                /\ UNCHANGED fsvars
                /\ sweep'.pc = "idle"
                /\ ret' = Ret("submit_jobs", "", sweep.submitted)]_vars
    /\ [](sweep.pc = "loop" /\ sweep.visited # <<>>
            /\ LastVisit.outcome = "notfound" =>
                /\ sweep.candidates # <<>>
                /\ Head(sweep.candidates) = LastVisit.dir
                /\ \A c \in Range(sweep.candidates) :
                      markers[c] = {sweep.target} /\ history[c] = <<>>)

\* qsub was found for the first candidate and not for the second of three
C5_Witness ==
    /\ sweep.pc = "loop"
    /\ Len(sweep.listed) = 3
    /\ sweep.broke = "notfound"
    /\ Len(sweep.submitted) = 1
    /\ Len(sweep.candidates) = 2

\* the directories the loop has dealt with, in order
VisitedDirs == [i \in 1 .. Len(sweep.visited) |-> sweep.visited[i].dir]

\* C6: a missing job script or a non-zero exit of qsub is not fatal: the
\* step changes no file, gathers no record and uses no budget, the loop goes
\* on with the next candidate, and a sweep that is not cut short by the
\* limit or by a missing qsub deals with every candidate listed.
C6_LocalFailureContinues ==
    /\ [][SkipNoScript \/ QsubFailed =>
            /\ UNCHANGED fsvars
            /\ sweep'.submitted = sweep.submitted
            /\ sweep'.limit = sweep.limit
            /\ sweep'.pc = "loop"
            /\ sweep'.broke = ""
            /\ sweep'.candidates = Tail(sweep.candidates)]_vars
    /\ [](sweep.pc = "loop" /\ sweep.broke = "" =>
            sweep.listed = VisitedDirs \o sweep.candidates)
    /\ [](sweep.pc = "loop" /\ sweep.broke = "limit" => sweep.limit <= 0)
    /\ [](sweep.pc = "loop" =>
            \A i \in 1 .. Len(sweep.visited) :
                sweep.visited[i].outcome \in {"noscript", "failed"} =>
                    /\ markers[sweep.visited[i].dir] = {sweep.target}
                    /\ history[sweep.visited[i].dir] = <<>>)

\* qsub failed for a, b has no job script, and c was submitted after them
C6_Witness ==
    /\ sweep.pc = "loop"
    /\ sweep.visited = <<Visit("a", "failed"), Visit("b", "noscript"),
                         Visit("c", "submitted")>>
    /\ markers["c"] = {SUBMITTED}

\* C7: list_status(S) returns exactly the entries of the parent that are
\* directories, hold a tracking directory and are marked S, in ascending
\* order of name; with a and c INITIALIZED and b RUNNING,
\* list_status(INITIALIZED) = [a, c].
C7_ListStatus ==
    /\ \A status \in Status :
          LET r == list_status(status)
          IN  /\ Range(r) = {p \in Names : isdir[p] /\ skong[p]
                                           /\ status \in markers[p]}
              /\ \A i, j \in 1 .. Len(r) : i < j => Ord[r[i]] < Ord[r[j]]
    /\ (/\ \A p \in Names : skong[p]
        /\ markers = [a |-> {INITIALIZED}, b |-> {RUNNING}, c |-> {INITIALIZED}])
          => list_status(INITIALIZED) = <<"a", "c">>
    /\ ret.op = "list_status" =>
          \E status \in Status :
              /\ ret.val = list_status(status)
              /\ \A i \in 1 .. Len(ret.val) :
                    /\ isdir[ret.val[i]] /\ skong[ret.val[i]]
                    /\ markers[ret.val[i]] = {status}

\* list_status(INITIALIZED) has returned [a, c] past b, which is RUNNING
C7_Witness ==
    /\ ret = Ret("list_status", "", <<"a", "c">>)
    /\ markers = [a |-> {INITIALIZED}, b |-> {RUNNING}, c |-> {INITIALIZED}]

IsPrefix(s, t) == Len(s) <= Len(t) /\ SubSeq(t, 1, Len(s)) = s

\* the history line expected for each sampled entry
C8_Line(entry) ==
    IF entry = << <<"step", JInt(1)>> >>
    THEN "{\"step\": 1}\n"
    ELSE "{\"event\": \"note\", \"step\": 2}\n"

\* C8: the history is append-only: no step of any operation removes,
\* rewrites or reorders a line (the history before is a prefix of the
\* history after), and log(entry) on an initialized project adds exactly one
\* line, holding the entry, at the end.
C8_AppendOnly ==
    [][/\ \A p \in Names : IsPrefix(history[p], history'[p])
       /\ \A entry \in UserEntries, p \in Names :
             (skong[p] /\ Log(entry, p)) =>
                 /\ history'[p] = Append(history[p], C8_Line(entry))
                 /\ \A q \in Names \ {p} : history'[q] = history[q]]_vars

\* two log calls have left their two lines in call order
C8_Witness ==
    /\ ret = Ret("log", "", None)
    /\ history["a"] = <<"{\"event\": \"note\", \"step\": 2}\n", "{\"step\": 1}\n">>

\* C9: init on a directory succeeds from any state (no tracking directory,
\* or a project in any status) and leaves status INITIALIZED with exactly
\* one marker and the history unchanged; a second init right after the
\* first succeeds too and changes nothing.
C9_InitIdempotent ==
    [][\A p \in Names :
          /\ (isdir[p] /\ Init_(p)) =>
                /\ ret' = Ret("init", "", p)
                /\ skong'[p]
                /\ markers'[p] = {INITIALIZED}
                /\ read_status_markers(markers'[p]) = INITIALIZED
                /\ history' = history
          /\ (ret = Ret("init", "", p) /\ Init_(p)) => UNCHANGED vars]_vars

\* init has returned on a project that holds two history lines
C9_Witness ==
    /\ ret = Ret("init", "", "a")
    /\ markers["a"] = {INITIALIZED}
    /\ Len(history["a"]) = 2

\* C10: on a path without tracking directory, read_status, log and
\* set_status(S) for S other than INITIALIZED fail with the not-initialized
\* error and change nothing (no tracking directory, marker or history).
C10_NotInitialized ==
    [][\A p \in Names :
          ~skong[p] =>
              /\ ReadStatus(p) =>
                    /\ ret' = Ret("read_status", "NotInitialized", None)
                    /\ UNCHANGED fsvars
              /\ \A entry \in UserEntries :
                    Log(entry, p) =>
                        /\ ret' = Ret("log", "NotInitialized", None)
                        /\ UNCHANGED fsvars
              /\ \A status \in Status \ {INITIALIZED} :
                    SetStatus(status, p) =>
                        /\ ret' = Ret("set_status", "NotInitialized", None)
                        /\ UNCHANGED fsvars]_vars

\* log has failed on the directory a, which has no tracking directory
C10_Witness ==
    /\ ret = Ret("log", "NotInitialized", None)
    /\ isdir["a"]
    /\ ~skong["a"]
    /\ markers["a"] = {}
    /\ history["a"] = <<>>

\* C11: set_status(INITIALIZED) is the bootstrap case: called on an existing
\* directory that has no tracking directory, it does not fail and leaves the
\* status INITIALIZED.
C11_BootstrapSucceeds ==
    [][\A p \in Names :
          (isdir[p] /\ ~skong[p] /\ SetStatus(INITIALIZED, p)) =>
              /\ ret'.err = ""
              /\ read_status_markers(markers'[p]) = INITIALIZED]_vars

----------------------------------------------------------------------------
(* __main__.py: the command surface.  A call of main ends with             *)
(* ret = Ret("main", reason, exit status): an exception that main does not *)
(* catch ends the process with status 1.                                   *)

\* the `entry` arguments given to `skong log`: the JSON text of the sampled
\* entries, a JSON value that is no object, and a text that is no JSON
LogArguments == {json_dumps(entry) : entry \in UserEntries} \cup {"[1]", "{bad"}

\* main, lines 152-160: json.loads(args.entry) and the isinstance test, on
\* the sampled arguments
JsonLoads ==
    [argument \in LogArguments |->
        IF \E entry \in UserEntries : json_dumps(entry) = argument
        THEN [err |-> "",
              entry |-> CHOOSE entry \in UserEntries : json_dumps(entry) = argument]
        ELSE IF argument = "[1]"
        THEN [err |-> "NotADict", entry |-> <<>>]
        ELSE [err |-> "InvalidJSON", entry |-> <<>>]]

json_loads(argument) == JsonLoads[argument]

\* Mutant of main_read_exit: "No status found." does not exit.
main_read_exit_zero(status) == Ret("main", "", 0)

\* main, lines 145-150: the end of `read-status`
main_read_exit(status) ==
    IF status = None THEN Ret("main", "NoStatus", 1) ELSE Ret("main", "", 0)

\* an exception leaves main: traceback, exit status 1
main_raise(err) == Ret("main", err, 1)

\* main, lines 131-133: no sub-command
MainNoCommand ==
    /\ Idle
    /\ ret' = Ret("main", "NoCommand", 1)
    /\ UNCHANGED <<fsvars, sweep, procs>>

\* main, lines 135-137: `skong init p`
MainInit(p) ==
    /\ Idle
    /\ IF ~isdir[p]
       THEN /\ ret' = main_raise("NotADirectoryError")
            /\ UNCHANGED <<skong, markers, submitted_file>>
       ELSE /\ skong' = [skong EXCEPT ![p] = TRUE]
            /\ markers' = [markers EXCEPT ![p] = set_status_markers(@, INITIALIZED)]
            /\ submitted_file' = [submitted_file EXCEPT ![p] = ""]
            /\ ret' = Ret("main", "", 0)
    /\ UNCHANGED <<isdir, hasjob, history, sweep, procs>>

\* main, lines 139-142: `skong set-status status p`
MainSetStatus(status, p) ==
    /\ Idle
    /\ IF status # INITIALIZED /\ ~require_initialized(p)
       THEN /\ ret' = main_raise("NotInitialized")
            /\ UNCHANGED <<markers, submitted_file>>
       ELSE IF ~skong[p]
       THEN /\ ret' = main_raise(touch_error(p))
            /\ UNCHANGED <<markers, submitted_file>>
       ELSE /\ markers' = [markers EXCEPT ![p] = set_status_markers(@, status)]
            /\ submitted_file' = [submitted_file EXCEPT ![p] = ""]
            /\ ret' = Ret("main", "", 0)
    /\ UNCHANGED <<isdir, hasjob, skong, history, sweep, procs>>

\* main, lines 144-150: `skong read-status p`
MainReadStatus(p) ==
    /\ Idle
    /\ IF ~require_initialized(p)
       THEN ret' = main_raise("NotInitialized")
       ELSE ret' = main_read_exit(read_status_markers(markers[p]))
    /\ UNCHANGED <<fsvars, sweep, procs>>

\* main, lines 152-162: `skong log argument p`
MainLog(argument, p) ==
    /\ Idle
    /\ Len(history[p]) < MaxHist
    /\ LET parsed == json_loads(argument)
       IN  IF parsed.err # ""
           THEN /\ ret' = Ret("main", parsed.err, 1)
                /\ UNCHANGED history
           ELSE IF ~require_initialized(p)
           THEN /\ ret' = main_raise("NotInitialized")
                /\ UNCHANGED history
           ELSE /\ history' = [history EXCEPT ![p] = log_lines(@, parsed.entry)]
                /\ ret' = Ret("main", "", 0)
    /\ UNCHANGED <<isdir, hasjob, skong, markers, submitted_file, sweep, procs>>

\* main, lines 164-180: `skong sub limit` and `skong continue limit` enter
\* submit_jobs; parent_exists = FALSE stands for a --path that does not
\* exist, on which path.iterdir() raises
MainSubmit(command, limit, parent_exists) ==
    IF parent_exists
    THEN SubmitStart(IF command = "sub" THEN INITIALIZED ELSE PARTIAL, limit)
    ELSE /\ Idle
         /\ ret' = main_raise("FileNotFoundError")
         /\ UNCHANGED <<fsvars, sweep, procs>>

\* main, lines 170 and 179: submit_jobs has returned, the count is printed
MainSubmitReturn ==
    /\ sweep.pc = "loop"
    /\ sweep.broke # "" \/ sweep.candidates = <<>>
    /\ ret' = Ret("main", "", 0)
    /\ sweep' = IdleSweep
    /\ UNCHANGED <<fsvars, procs>>

\* main, lines 182-189: `skong ls status`
MainLs(status, parent_exists) ==
    /\ Idle
    /\ ret' = IF parent_exists THEN Ret("main", "", 0)
              ELSE main_raise("FileNotFoundError")
    /\ UNCHANGED <<fsvars, sweep, procs>>

\* what qsub prints and the time of the clock in the runs of the command surface
CliStdout == <<" ", "4", "2", "\n">>
CliTimestamp == "2026-01-01 10:00:00"

NextCli ==
    \/ MainNoCommand
    \/ \E p \in Names : MainInit(p)
    \/ \E status \in Status, p \in Names : MainSetStatus(status, p)
    \/ \E p \in Names : MainReadStatus(p)
    \/ \E argument \in LogArguments, p \in Names : MainLog(argument, p)
    \/ \E command \in {"sub", "continue"}, limit \in Limits, parent_exists \in BOOLEAN :
          MainSubmit(command, limit, parent_exists)
    \/ LimitReached
    \/ SkipNoScript
    \/ QsubNotFound
    \/ QsubFailed
    \/ QsubSuccess(CliStdout, CliTimestamp)
    \/ MainSubmitReturn
    \/ \E status \in Status, parent_exists \in BOOLEAN : MainLs(status, parent_exists)
    \/ \E status \in Status, p \in Names : ExternalUnlink(status, p)

\* SpecCli: commands run one at a time on the parent directory of Spec; a
\* marker file may be removed by hand between two commands.
SpecCli == Init /\ [][NextCli]_vars

\* C12 as stated: the command surface exits non-zero exactly when no
\* sub-command is given, when read-status finds no marker and when the log
\* entry is malformed (not JSON, or not a JSON object); every other path,
\* also on a path that is not initialized, exits zero.
C12_ThreeCasesOnly ==
    ret.op = "main" =>
        (ret.val # 0 <=> ret.err \in {"NoCommand", "NoStatus", "InvalidJSON", "NotADict"})

\* C12, amended: main exits with status 1 when no sub-command is given, when
\* read-status finds no marker, when the log entry is not JSON or not a JSON
\* object, and whenever the library call raises: init on a path that is no
\* directory, set-status (any status), read-status or log on a path without
\* tracking directory, sub, continue or ls on a parent that does not exist.
\* Every other run exits with status 0.
C12_ExitStatus ==
    /\ [](ret.op = "main" => ret.val \in {0, 1})
    /\ [][ret'.op = "main" =>
          /\ MainNoCommand => ret'.val = 1
          /\ \A p \in Names :
                /\ MainInit(p) => (ret'.val = 0 <=> isdir[p])
                /\ MainReadStatus(p) =>
                      (ret'.val = 0 <=> (skong[p] /\ markers[p] # {}))
                /\ \A status \in Status :
                      MainSetStatus(status, p) => (ret'.val = 0 <=> skong[p])
                /\ \A argument \in LogArguments :
                      MainLog(argument, p) =>
                          (ret'.val = 0 <=>
                              (skong[p] /\ argument \notin {"[1]", "{bad"}))
          /\ \A parent_exists \in BOOLEAN :
                /\ \A status \in Status :
                      MainLs(status, parent_exists) =>
                          (ret'.val = 0 <=> parent_exists)
                /\ \A command \in {"sub", "continue"}, limit \in Limits :
                      (MainSubmit(command, limit, parent_exists) /\ ~parent_exists)
                          => ret'.val = 1
          /\ MainSubmitReturn => ret'.val = 0]_vars

\* read-status has exited with status 1 on a project without marker
C12_Witness ==
    /\ ret = Ret("main", "NoStatus", 1)
    /\ skong["a"]
    /\ markers["a"] = {}


----------------------------------------------------------------------------
(* core.py: calls that run concurrently.  Every access to the file system  *)
(* is a step of its own, so that the steps of two processes interleave.    *)

Other(i) == 3 - i

Running(i) == procs[i].pc \notin {"idle", "done"}

\* process i moves to the local state pr.  writes holds the directory in
\* which the step creates a marker, if it creates one: process i becomes the
\* one that wrote the latest marker there.  unlinks holds the directory whose
\* SUBMITTED file the step unlinks, if it unlinks one: the file a sweep holds
\* open there is no longer the one the name SUBMITTED refers to.
ProcMove(i, pr, writes, unlinks) ==
    procs' = [j \in ProcIds |->
                IF j = i THEN [pr EXCEPT !.latest = @ \cup writes]
                ELSE [procs[j] EXCEPT
                        !.latest = @ \ writes,
                        !.orphan = @ \/ (procs[j].pc = "write"
                                         /\ procs[j].child \in unlinks)]]

ProcStep(i, pr, writes) == ProcMove(i, pr, writes, {})

\* submit_jobs, lines 147-151, and list_status, line 109, in process i: the
\* call begins and the entries of the parent are read and sorted
ConcSubmitStart(i, target_status, limit) ==
    /\ procs[i].pc = "idle"
    /\ ProcStep(i, [IdleProc EXCEPT
                      !.pc = "is_dir", !.target = target_status,
                      !.limit = limit, !.limit_in = limit,
                      !.restart = restart_flag(target_status),
                      !.entries = sorted(Names),
                      !.overlapped = Running(Other(i)),
                      !.after = (procs[Other(i)].pc = "done")], {})
    /\ UNCHANGED <<fsvars, sweep, ret>>

\* list_status, lines 109 and 117: the loop moves on to the next entry, or
\* the matches are returned and become the candidates (submit_jobs, line 151)
next_entry(pr, matches) ==
    IF Tail(pr.entries) = <<>>
    THEN [pr EXCEPT !.pc = "loop", !.entries = <<>>, !.matches = matches,
                    !.candidates = matches, !.listed = matches]
    ELSE [pr EXCEPT !.pc = "is_dir", !.entries = Tail(@), !.matches = matches]

\* list_status, lines 110-111: child.is_dir()
ConcIsDir(i) ==
    /\ procs[i].pc = "is_dir"
    /\ LET pr == procs[i]
       IN  IF isdir[Head(pr.entries)]
           THEN ProcStep(i, [pr EXCEPT !.pc = "skong_is_dir"], {})
           ELSE ProcStep(i, next_entry(pr, pr.matches), {})
    /\ UNCHANGED <<fsvars, sweep, ret>>

\* list_status, lines 112-114: skong.is_dir()
ConcSkongIsDir(i) ==
    /\ procs[i].pc = "skong_is_dir"
    /\ LET pr == procs[i]
       IN  IF skong[Head(pr.entries)]
           THEN ProcStep(i, [pr EXCEPT !.pc = "marker_exists"], {})
           ELSE ProcStep(i, next_entry(pr, pr.matches), {})
    /\ UNCHANGED <<fsvars, sweep, ret>>

\* list_status, lines 115-116: the status file of the entry is looked up
ConcMarkerExists(i) ==
    /\ procs[i].pc = "marker_exists"
    /\ LET pr == procs[i]
           child == Head(pr.entries)
       IN  IF marker_exists(pr.target, child)
           THEN ProcStep(i, next_entry(pr, Append(pr.matches, child)), {})
           ELSE ProcStep(i, next_entry(pr, pr.matches), {})
    /\ UNCHANGED <<fsvars, sweep, ret>>

ConcAtCandidate(i) ==
    /\ procs[i].pc = "loop"
    /\ procs[i].broke = ""
    /\ procs[i].candidates # <<>>

\* lines 154-156
ConcLimitReached(i) ==
    /\ ConcAtCandidate(i)
    /\ limit_exhausted(procs[i].limit)
    /\ ProcStep(i, [procs[i] EXCEPT !.broke = "limit"], {})
    /\ UNCHANGED <<fsvars, sweep, ret>>

\* lines 158-164
ConcSkipNoScript(i) ==
    /\ ConcAtCandidate(i)
    /\ ~limit_exhausted(procs[i].limit)
    /\ ~hasjob[Head(procs[i].candidates)]
    /\ ProcStep(i, skip_sweep(procs[i]), {})
    /\ UNCHANGED <<fsvars, sweep, ret>>

\* lines 179-184
ConcQsubNotFound(i) ==
    /\ ConcAtCandidate(i)
    /\ ~limit_exhausted(procs[i].limit)
    /\ hasjob[Head(procs[i].candidates)]
    /\ ProcStep(i, not_found_sweep(procs[i]), {})
    /\ UNCHANGED <<fsvars, sweep, ret>>

\* lines 185-190
ConcQsubFailed(i) ==
    /\ ConcAtCandidate(i)
    /\ ~limit_exhausted(procs[i].limit)
    /\ hasjob[Head(procs[i].candidates)]
    /\ ProcStep(i, failed_sweep(procs[i]), {})
    /\ UNCHANGED <<fsvars, sweep, ret>>

\* lines 169-178 and 193: qsub accepts the job of the candidate and prints
\* stdout; the job id and the timestamp are computed
ConcQsubSuccess(i, stdout, timestamp) ==
    /\ ConcAtCandidate(i)
    /\ ~limit_exhausted(procs[i].limit)
    /\ hasjob[Head(procs[i].candidates)]
    /\ LET child == Head(procs[i].candidates)
       IN  ProcStep(i, [procs[i] EXCEPT
                          !.pc = "unlink", !.child = child,
                          !.job_id = parse_job_id(stdout),
                          !.timestamp = timestamp,
                          !.visited = Append(@, Visit(child, "submitted"))], {})
    /\ UNCHANGED <<fsvars, sweep, ret>>

\* line 197: unlink(missing_ok=True) of the target marker
ConcUnlinkTarget(i) ==
    /\ procs[i].pc = "unlink"
    /\ LET child == procs[i].child
       IN  /\ markers' = [markers EXCEPT ![child] = @ \ {procs[i].target}]
           /\ submitted_file' = [submitted_file EXCEPT ![child] =
                                   IF procs[i].target = SUBMITTED THEN "" ELSE @]
           /\ ProcMove(i, [procs[i] EXCEPT !.pc = "open"], {},
                       IF procs[i].target = SUBMITTED THEN {child} ELSE {})
    /\ UNCHANGED <<isdir, hasjob, skong, history, sweep, ret>>

\* lines 200-203, write_text: the SUBMITTED file is opened for writing, which
\* creates it or truncates it
ConcOpenSubmitted(i) ==
    /\ procs[i].pc = "open"
    /\ LET child == procs[i].child
       IN  /\ markers' = [markers EXCEPT ![child] = @ \cup {SUBMITTED}]
           /\ submitted_file' = [submitted_file EXCEPT ![child] = ""]
           /\ ProcStep(i, [procs[i] EXCEPT !.pc = "write", !.orphan = FALSE], {child})
    /\ UNCHANGED <<isdir, hasjob, skong, history, sweep, ret>>

\* a write of data at offset 0 of a file that holds old
overwrite(old, data) ==
    IF Len(old) > Len(data) THEN data \o SubSeq(old, Len(data) + 1, Len(old))
    ELSE data

\* lines 200-203, write_text: the text is written at the start of the opened
\* file and the file is closed.  The write is lost when the file has been
\* unlinked since it was opened.
ConcWriteSubmitted(i) ==
    /\ procs[i].pc = "write"
    /\ LET child == procs[i].child
       IN  submitted_file' =
              [submitted_file EXCEPT ![child] =
                  IF procs[i].orphan THEN @
                  ELSE overwrite(@, submitted_text(procs[i].timestamp,
                                                   procs[i].job_id))]
    /\ ProcStep(i, [procs[i] EXCEPT !.pc = "log", !.orphan = FALSE], {})
    /\ UNCHANGED <<isdir, hasjob, skong, markers, history, sweep, ret>>

\* lines 206-224: log the event, add the record, decrement the budget
ConcLog(i) ==
    /\ procs[i].pc = "log"
    /\ LET pr == procs[i]
       IN  IF ~require_initialized(pr.child)
           THEN /\ ProcStep(i, [pr EXCEPT !.pc = "done", !.err = "NotInitialized"], {})
                /\ UNCHANGED history
           ELSE /\ history' = [history EXCEPT ![pr.child] =
                                 log_lines(@, submit_entry(pr.job_id, pr.timestamp,
                                                           pr.restart, pr.target))]
                /\ ProcStep(i, [pr EXCEPT
                                  !.pc = "loop",
                                  !.candidates = Tail(@),
                                  !.submitted = Append(@, submit_record(pr.child, pr.job_id,
                                                                        pr.timestamp)),
                                  !.limit = @ - 1], {})
    /\ UNCHANGED <<isdir, hasjob, skong, markers, submitted_file, sweep, ret>>

\* line 226
ConcSubmitReturn(i) ==
    /\ procs[i].pc = "loop"
    /\ procs[i].broke # "" \/ procs[i].candidates = <<>>
    /\ ProcStep(i, [procs[i] EXCEPT !.pc = "done"], {})
    /\ UNCHANGED <<fsvars, sweep, ret>>

\* set_status, lines 51-52, and _require_initialized, lines 23-24, in process
\* i: the call begins and skong.is_dir() is looked up.  When .skong is missing
\* the call goes on to build the message of the exception.
ConcSetStatusStart(i, status, p) ==
    /\ procs[i].pc = "idle"
    /\ IF status # INITIALIZED /\ ~require_initialized(p)
       THEN ProcStep(i, [IdleProc EXCEPT !.pc = "resolve", !.path = p, !.status = status,
                                         !.overlapped = Running(Other(i)),
                                         !.after = (procs[Other(i)].pc = "done")], {})
       ELSE ProcStep(i, [IdleProc EXCEPT !.pc = "exists", !.path = p, !.status = status,
                                         !.k = 1,
                                         !.overlapped = Running(Other(i)),
                                         !.after = (procs[Other(i)].pc = "done")], {})
    /\ UNCHANGED <<fsvars, sweep, ret>>

\* _require_initialized, lines 25-28: Path(path).resolve() reads the path for
\* the message, and FileNotFoundError leaves set_status
ConcRaiseNotInitialized(i) ==
    /\ procs[i].pc = "resolve"
    /\ ProcStep(i, [procs[i] EXCEPT !.pc = "done", !.err = "NotInitialized"], {})
    /\ UNCHANGED <<fsvars, sweep, ret>>

\* Mutant of next_member: the loop ends after the first member.
next_member_stop(pr) == [pr EXCEPT !.pc = "touch", !.found = FALSE]

\* lines 55-58: the loop moves on to the next member, or ends
next_member(pr) ==
    IF pr.k = Len(StatusOrder)
    THEN [pr EXCEPT !.pc = "touch", !.found = FALSE]
    ELSE [pr EXCEPT !.pc = "exists", !.k = @ + 1, !.found = FALSE]

\* line 57: status_file.exists()
ConcExists(i) ==
    /\ procs[i].pc = "exists"
    /\ LET pr == procs[i]
       IN  IF StatusOrder[pr.k] \in markers[pr.path]
           THEN ProcStep(i, [pr EXCEPT !.pc = "unlink_member", !.found = TRUE], {})
           ELSE ProcStep(i, next_member(pr), {})
    /\ UNCHANGED <<fsvars, sweep, ret>>

\* line 58: status_file.unlink(), which raises when the file has been
\* removed since exists() saw it
ConcUnlinkMember(i) ==
    /\ procs[i].pc = "unlink_member"
    /\ LET pr == procs[i]
           s == StatusOrder[pr.k]
       IN  IF s \in markers[pr.path]
           THEN /\ markers' = [markers EXCEPT ![pr.path] = @ \ {s}]
                /\ submitted_file' = [submitted_file EXCEPT ![pr.path] =
                                        IF s = SUBMITTED THEN "" ELSE @]
                /\ ProcMove(i, next_member(pr), {},
                            IF s = SUBMITTED THEN {pr.path} ELSE {})
           ELSE /\ ProcStep(i, [pr EXCEPT !.pc = "done", !.err = "FileNotFoundError"], {})
                /\ UNCHANGED <<markers, submitted_file>>
    /\ UNCHANGED <<isdir, hasjob, skong, history, sweep, ret>>

\* line 61: touch() of the new status file
ConcTouch(i) ==
    /\ procs[i].pc = "touch"
    /\ LET pr == procs[i]
       IN  IF ~skong[pr.path]
           THEN /\ ProcStep(i, [pr EXCEPT !.pc = "done", !.err = touch_error(pr.path)], {})
                /\ UNCHANGED markers
           ELSE /\ markers' = [markers EXCEPT ![pr.path] = @ \cup {pr.status}]
                /\ ProcStep(i, [pr EXCEPT !.pc = "done"], {pr.path})
    /\ UNCHANGED <<isdir, hasjob, skong, submitted_file, history, sweep, ret>>

\* The parent directory holds the projects a and b, each with one marker, and
\* the regular file c.
ConcInit ==
    /\ isdir = [p \in Names |-> p # "c"]
    /\ hasjob \in [Names -> BOOLEAN]
    /\ ~hasjob["c"]
    /\ skong = isdir
    /\ markers \in [Names -> {{}} \cup {{s} : s \in SubmitTargets}]
    /\ \A p \in Names : skong[p] <=> markers[p] # {}
    /\ submitted_file = [p \in Names |-> ""]
    /\ history = [p \in Names |-> <<>>]
    /\ sweep = IdleSweep
    /\ procs = NoProcs
    /\ ret = NoRet

\* the time at which the concurrent calls run: datetime.now() has a resolution
\* of one second
ConcTimestamp == "2026-01-01 10:00:00"

ConcSweepStep(i) ==
    \/ ConcIsDir(i)
    \/ ConcSkongIsDir(i)
    \/ ConcMarkerExists(i)
    \/ ConcLimitReached(i)
    \/ ConcSkipNoScript(i)
    \/ ConcQsubNotFound(i)
    \/ ConcQsubFailed(i)
    \/ \E stdout \in QsubOutputs : ConcQsubSuccess(i, stdout, ConcTimestamp)
    \/ ConcUnlinkTarget(i)
    \/ ConcOpenSubmitted(i)
    \/ ConcWriteSubmitted(i)
    \/ ConcLog(i)
    \/ ConcSubmitReturn(i)

\* SpecSweeps: two processes, each running one submit_jobs call
NextSweeps ==
    \E i \in ProcIds :
        \/ \E target_status \in SubmitTargets, limit \in Limits :
              ConcSubmitStart(i, target_status, limit)
        \/ ConcSweepStep(i)

SpecSweeps == ConcInit /\ [][NextSweeps]_vars

\* SpecJob: process 1 runs one submit_jobs call, process 2 (a job script)
\* one set_status call
NextJob ==
    \/ \E target_status \in SubmitTargets, limit \in Limits :
          ConcSubmitStart(1, target_status, limit)
    \/ ConcSweepStep(1)
    \/ \E status \in Status, p \in Names : ConcSetStatusStart(2, status, p)
    \/ ConcRaiseNotInitialized(2)
    \/ ConcExists(2)
    \/ ConcUnlinkMember(2)
    \/ ConcTouch(2)

SpecJob == ConcInit /\ [][NextJob]_vars

\* the number of times process i has had the scheduler accept the job of d
Submissions(i, d) ==
    Cardinality({n \in 1 .. Len(procs[i].visited) :
                    procs[i].visited[n] = Visit(d, "submitted")})

\* C13 as stated: two submit_jobs sweeps for the same target status that run
\* concurrently can both list a candidate before either writes SUBMITTED, and
\* then the scheduler is invoked twice for it.  With a single sweep at a time
\* no directory is submitted twice: one sweep never submits a directory twice,
\* and a directory submitted by both sweeps was listed by both, for the same
\* target, one of them having begun while the other was in progress.
C13_DoubleSubmissionOnlyWhenConcurrent ==
    \A d \in Names :
        /\ \A i \in ProcIds : Submissions(i, d) <= 1
        /\ (Submissions(1, d) = 1 /\ Submissions(2, d) = 1) =>
              /\ procs[1].overlapped \/ procs[2].overlapped
              /\ procs[1].target = procs[2].target
              /\ \A i \in ProcIds : d \in Range(procs[i].listed)

\* C13, amended: one sweep never submits a directory twice, and a directory
\* submitted by both sweeps was listed by both.  When neither target is
\* SUBMITTED the two sweeps have the same target and one began while the other
\* was in progress: with a single sweep at a time no directory is submitted
\* twice.  When the sweeps did not overlap, the one that began after the other
\* had returned has the target SUBMITTED: the marker a sweep writes is that
\* target, so a later sweep for SUBMITTED submits the directory again.
C13_DoubleSubmissionCases ==
    \A d \in Names :
        /\ \A i \in ProcIds : Submissions(i, d) <= 1
        /\ (Submissions(1, d) = 1 /\ Submissions(2, d) = 1) =>
              /\ \A i \in ProcIds : d \in Range(procs[i].listed)
              /\ (\A i \in ProcIds : procs[i].target # SUBMITTED) =>
                    /\ procs[1].overlapped \/ procs[2].overlapped
                    /\ procs[1].target = procs[2].target
              /\ (~procs[1].overlapped /\ ~procs[2].overlapped) =>
                    \E i \in ProcIds : procs[i].after /\ procs[i].target = SUBMITTED

\* two sweeps for INITIALIZED, one begun while the other was in progress, have
\* returned; each had the scheduler accept the job of a, and the history of a
\* holds the two "submitted" entries
C13_Witness ==
    /\ \A i \in ProcIds : procs[i].pc = "done" /\ Submissions(i, "a") = 1
    /\ \A i \in ProcIds : procs[i].target = INITIALIZED
    /\ procs[1].overlapped \/ procs[2].overlapped
    /\ markers["a"] = {SUBMITTED}
    /\ Len(history["a"]) = 2
    /\ \A n \in 1 .. 2 :
          history["a"][n] =
              json_dumps(submit_entry(procs[n].submitted[1].job_id,
                                      procs[n].submitted[1].timestamp,
                                      0, INITIALIZED)) \o "\n"

\* a sweep for INITIALIZED submitted a and returned; then a sweep for
\* SUBMITTED began, listed a and submitted it again
C13_WitnessSequential ==
    /\ \A i \in ProcIds : procs[i].pc = "done" /\ Submissions(i, "a") = 1
    /\ procs[1].target = INITIALIZED
    /\ procs[2].target = SUBMITTED
    /\ procs[2].after
    /\ ~procs[1].overlapped /\ ~procs[2].overlapped
    /\ markers["a"] = {SUBMITTED}
    /\ Len(history["a"]) = 2

\* both calls of SpecJob have finished, and the set_status call was made on
\* a directory the sweep had listed
JobDone ==
    /\ \A i \in ProcIds : procs[i].pc = "done"
    /\ procs[2].path \in Range(procs[1].listed)

\* the status written last in d: that of the call that created the latest
\* marker file there (set_status by touch, the sweep by opening SUBMITTED)
WrittenLast(d) ==
    IF d \in procs[2].latest THEN procs[2].status
    ELSE IF d \in procs[1].latest THEN SUBMITTED
    ELSE None

\* C14 as stated: when a sweep runs interleaved with an external set_status
\* on a candidate directory, the directory has at most one status marker once
\* both have finished, and read_status returns the status written last.
C14_OneMarkerAfterInterleaving ==
    JobDone =>
        LET d == procs[2].path
        IN  /\ Cardinality(markers[d]) <= 1
            /\ read_status_markers(markers[d]) = WrittenLast(d)

\* C14, amended: once both have finished, the directory holds SUBMITTED, the
\* status S the actor set, or both.  When one marker is left, or when the two
\* calls did not overlap, the marker is the status written last and
\* read_status returns it; when the calls overlap two markers can remain, and
\* read_status returns the one declared first.
C14_MarkersAfterInterleaving ==
    JobDone =>
        LET d == procs[2].path
        IN  /\ markers[d] # {}
            /\ markers[d] \subseteq {SUBMITTED, procs[2].status}
            /\ read_status_markers(markers[d]) \in markers[d]
            /\ (Cardinality(markers[d]) = 1 \/
                    (~procs[1].overlapped /\ ~procs[2].overlapped)) =>
                  /\ Cardinality(markers[d]) = 1
                  /\ read_status_markers(markers[d]) = WrittenLast(d)

\* set_status(RUNNING) ran between the sweep's qsub and its write of
\* SUBMITTED: both markers are left and read_status returns RUNNING, while
\* SUBMITTED was written last
C14_Witness ==
    /\ JobDone
    /\ procs[2].path = "a"
    /\ procs[2].status = RUNNING
    /\ markers["a"] = {RUNNING, SUBMITTED}
    /\ WrittenLast("a") = SUBMITTED
    /\ read_status_markers(markers["a"]) = RUNNING

\* the declaration order the claim names, and the place of a status in it
C15_Order ==
    <<"INITIALIZED", "FINISHED", "RUNNING", "DONE", "SUBMITTED", "FAILED", "PARTIAL">>

C15_Place(s) == CHOOSE n \in 1 .. 7 : C15_Order[n] = s

\* C15: read_status on an initialized project returns None iff no marker
\* exists; when several markers coexist it returns, without error, the one
\* that comes first in the declaration order; and it never modifies the
\* project.
C15_ReadStatus ==
    [][\A p \in Names :
          (skong[p] /\ ReadStatus(p)) =>
              /\ ret'.op = "read_status"
              /\ ret'.err = ""
              /\ ret'.val = None <=> markers[p] = {}
              /\ markers[p] # {} =>
                    /\ ret'.val \in markers[p]
                    /\ \A s \in markers[p] : C15_Place(ret'.val) <= C15_Place(s)
              /\ UNCHANGED fsvars]_vars

\* read_status has returned FINISHED on a project that also holds RUNNING
\* and PARTIAL
C15_Witness ==
    /\ ret = Ret("read_status", "", FINISHED)
    /\ markers["a"] = {FINISHED, RUNNING, PARTIAL}

\* read_status has returned None on an initialized project without marker
C15_WitnessNone ==
    /\ ret = Ret("read_status", "", None)
    /\ skong["a"]
    /\ markers["a"] = {}

\* the directories of a sequence of visits or of records
C16_Dirs(seq) == [n \in 1 .. Len(seq) |-> seq[n].dir]

\* a sequence of names in strictly ascending order: sorted, none twice
C16_Ascending(ds) ==
    \A m, n \in 1 .. Len(ds) : m < n => Ord[ds[m]] < Ord[ds[n]]

\* C16: a sweep processes the candidates strictly in sorted-name order, each
\* at most once: the candidates visited so far, the scheduler invocations and
\* the returned records are in ascending name order and precede every
\* candidate still to come; once the budget is zero the sweep stops: no further
\* candidate is visited, and no marker and no history changes.
C16_SortedOrderAndStop ==
    /\ [](sweep.pc = "loop" =>
            /\ C16_Ascending(C16_Dirs(sweep.visited))
            /\ C16_Ascending(C16_Dirs(sweep.submitted))
            /\ C16_Ascending(sweep.listed)
            /\ \A v \in Range(C16_Dirs(sweep.visited)), c \in Range(sweep.candidates) :
                  IF sweep.broke = "notfound"
                  THEN Ord[v] <= Ord[c]
                  ELSE Ord[v] < Ord[c])
    /\ [](ret.op = "submit_jobs" => C16_Ascending(C16_Dirs(ret.val)))
    /\ [][(sweep.pc = "loop" /\ sweep.limit <= 0) =>
             /\ UNCHANGED fsvars
             /\ \/ sweep'.visited = sweep.visited /\ sweep'.submitted = sweep.submitted
                \/ sweep' = IdleSweep /\ ret' = Ret("submit_jobs", "", sweep.submitted)]_vars

\* a sweep with budget 2 over the candidates a, b, c has submitted a and b
\* and stopped at c
C16_Witness ==
    /\ sweep.pc = "loop"
    /\ sweep.limit_in = 2
    /\ sweep.broke = "limit"
    /\ sweep.listed = <<"a", "b", "c">>
    /\ C16_Dirs(sweep.submitted) = <<"a", "b">>
    /\ sweep.candidates = <<"c">>
    /\ markers["c"] = {sweep.target}
    /\ history["c"] = <<>>

\* the child d is as it was when the sweep began
C17_Untouched(d) ==
    /\ markers[d] = sweep.before.markers[d]
    /\ submitted_file[d] = sweep.before.submitted_file[d]
    /\ history[d] = sweep.before.history[d]

\* the child d was a candidate marked target_status when the sweep began and
\* is now marked SUBMITTED, with one history entry appended
C17_Moved(d) ==
    /\ d \in Range(sweep.listed)
    /\ sweep.target \in sweep.before.markers[d]
    /\ markers[d] = {"SUBMITTED"}
    /\ Len(history[d]) = Len(sweep.before.history[d]) + 1
    /\ SubSeq(history[d], 1, Len(sweep.before.history[d])) = sweep.before.history[d]

\* C17: the only status transition of a sweep is target_status -> SUBMITTED.
\* Throughout the sweep, and so when the loop has ended and submit_jobs
\* returns: every child has the markers and history it had before, or it was
\* a candidate marked target_status and is now marked SUBMITTED with one
\* history entry appended; children that were not candidates (another status,
\* no tracking directory, regular files) and the parent's entries, tracking
\* directories and job scripts are unchanged; the return changes no file.
C17_Frame ==
    /\ [](sweep.pc = "loop" =>
            /\ \A d \in Names :
                  /\ C17_Untouched(d) \/ C17_Moved(d)
                  /\ d \notin Range(sweep.listed) => C17_Untouched(d)
            /\ isdir = sweep.before.isdir
            /\ skong = sweep.before.skong
            /\ hasjob = sweep.before.hasjob)
    /\ [][(sweep.pc = "loop" /\ sweep'.pc = "idle") => UNCHANGED fsvars]_vars

\* the loop of a sweep for INITIALIZED has ended: a went to SUBMITTED with
\* one history entry, b (no job script) and c (marked RUNNING) are as before
C17_Witness ==
    /\ sweep.pc = "loop"
    /\ sweep.candidates = <<>>
    /\ sweep.target = INITIALIZED
    /\ sweep.listed = <<"a", "b">>
    /\ C17_Moved("a") /\ ~C17_Untouched("a")
    /\ C17_Untouched("b")
    /\ markers["b"] = {INITIALIZED}
    /\ markers["c"] = {RUNNING}

----------------------------------------------------------------------------
(* SpecOutput: sweeps with budget 1 over the project a, in which qsub      *)
(* prints any text of at most MaxOut characters.                           *)

OutChars == {"4", ".", " ", "\n", "\f"}

RECURSIVE Texts(_)
Texts(n) ==
    IF n = 0 THEN {<<>>}
    ELSE Texts(n - 1) \cup {Append(cs, ch) : cs \in Texts(n - 1), ch \in OutChars}

Stdouts == Texts(MaxOut)

OutputInit ==
    /\ isdir = [p \in Names |-> p = "a"]
    /\ hasjob = isdir
    /\ skong = isdir
    /\ \E status \in CliTargets :
          markers = [p \in Names |-> IF p = "a" THEN {status} ELSE {}]
    /\ submitted_file = [p \in Names |-> ""]
    /\ history = [p \in Names |-> <<>>]
    /\ sweep = IdleSweep
    /\ procs = NoProcs
    /\ ret = NoRet

NextOutput ==
    \/ \E target_status \in CliTargets : SubmitStart(target_status, 1)
    \/ \E stdout \in Stdouts : QsubSuccess(stdout, CliTimestamp)
    \/ SubmitReturn

SpecOutput == OutputInit /\ [][NextOutput]_vars

\* the characters of cs between its first and its last character that is
\* not white space
C18_Stripped(cs) ==
    LET black == {n \in 1 .. Len(cs) : cs[n] \notin {" ", "\n", "\f"}}
    IN  IF black = {} THEN <<>>
        ELSE SubSeq(cs, CHOOSE n \in black : \A m \in black : n <= m,
                        CHOOSE n \in black : \A m \in black : n >= m)

\* the characters of cs before its first ".", all of them when it has none
C18_BeforeDot(cs) ==
    LET dots == {n \in 1 .. Len(cs) : cs[n] = "."}
    IN  IF dots = {} THEN cs
        ELSE SubSeq(cs, 1, (CHOOSE n \in dots : \A m \in dots : n <= m) - 1)

RECURSIVE C18_String(_)
C18_String(cs) ==
    IF cs = <<>> THEN "" ELSE C18_String(SubSeq(cs, 1, Len(cs) - 1)) \o cs[Len(cs)]

\* the job id the claim gives for each text qsub may print
C18_JobId == [stdout \in Stdouts |-> C18_String(C18_BeforeDot(C18_Stripped(stdout)))]

\* a text as the content of a JSON string: a line feed is written \n and a
\* form feed \f
RECURSIVE C18_Json(_)
C18_Json(cs) ==
    IF cs = <<>> THEN ""
    ELSE (CASE Head(cs) = "\n" -> "\\n"
            [] Head(cs) = "\f" -> "\\f"
            [] OTHER -> Head(cs))
         \o C18_Json(Tail(cs))

\* the job id of each text as it stands in the history line
C18_JobIdJson == [stdout \in Stdouts |-> C18_Json(C18_BeforeDot(C18_Stripped(stdout)))]

\* C18: the job id recorded for a successful submission (in the returned
\* record, in the SUBMITTED file and, JSON-encoded, in the history entry) is
\* the stripped standard output before its first "."; the whole stripped output when it
\* has no "."; and the empty string when the output is empty, the submission
\* being recorded as a success all the same (marker SUBMITTED, one record).
C18_JobIdRecorded ==
    [][QsubSuccess(sweep'.stdout, CliTimestamp) =>
              LET child == Head(sweep.candidates)
                  stdout == sweep'.stdout
                  job_id == C18_JobId[stdout]
              IN  /\ markers'[child] = {"SUBMITTED"}
                  /\ sweep'.submitted =
                        Append(sweep.submitted,
                               [dir |-> child, job_id |-> job_id,
                                timestamp |-> CliTimestamp])
                  /\ submitted_file'[child] =
                        "Timestamp: " \o CliTimestamp \o "\nJob ID: " \o job_id \o "\n"
                  /\ history'[child] =
                        Append(history[child],
                               C4_Line(C18_JobIdJson[stdout], CliTimestamp,
                                       IF sweep.target = PARTIAL THEN 1 ELSE 0,
                                       sweep.target))]_vars

\* qsub printed nothing (or white space only) and the submission of a was
\* recorded with the empty job id
C18_Witness ==
    /\ ret.op = "submit_jobs"
    /\ ret.val = <<[dir |-> "a", job_id |-> "", timestamp |-> CliTimestamp]>>
    /\ markers["a"] = {SUBMITTED}
    /\ submitted_file["a"] = "Timestamp: " \o CliTimestamp \o "\nJob ID: \n"
    /\ Len(history["a"]) = 1

\* qsub printed a text without "." and with inner white space, such as
\* "4 4\n": the whole stripped text is the job id
C18_WitnessNoDot ==
    /\ ret.op = "submit_jobs"
    /\ ret.val = <<[dir |-> "a", job_id |-> "4 4", timestamp |-> CliTimestamp]>>

\* the visits of the sweep in progress with one of the given outcomes
C19_Visits(outcomes) ==
    {n \in 1 .. Len(sweep.visited) : sweep.visited[n].outcome \in outcomes}

\* the values k can take: the candidates with a job script for which the
\* scheduler succeeded, plus any number of the candidates the sweep did not
\* reach that have a job script (the scheduler was not asked about them)
C19_K ==
    LET succeeded == Cardinality(C19_Visits({"submitted"}))
        unasked == Cardinality({c \in Range(sweep.candidates) : hasjob[c]})
    IN  succeeded .. (succeeded + unasked)

C19_Min(m, n) == IF m <= n THEN m ELSE n

\* C19: only successful submissions consume budget.  The remaining budget is
\* limit minus the number of records, whatever was skipped or failed; and for
\* limit >= 0, a sweep that was not aborted by scheduler-not-found returns
\* exactly min(limit, k) records.
C19_OnlySuccessConsumesBudget ==
    /\ [](sweep.pc = "loop" =>
            /\ sweep.limit = sweep.limit_in - Len(sweep.submitted)
            /\ Len(sweep.submitted) = Cardinality(C19_Visits({"submitted"})))
    /\ [][(sweep.pc = "loop" /\ sweep'.pc = "idle"
              /\ sweep.broke # "notfound" /\ sweep.limit_in >= 0) =>
             /\ ret'.op = "submit_jobs"
             /\ \A k \in C19_K : Len(ret'.val) = C19_Min(sweep.limit_in, k)]_vars

\* a sweep with limit 1 has invoked the scheduler twice: it failed for a
\* and succeeded for b; the budget is exhausted with c still to come
C19_Witness ==
    /\ sweep.pc = "loop"
    /\ sweep.limit_in = 1
    /\ sweep.visited = <<Visit("a", "failed"), Visit("b", "submitted")>>
    /\ Cardinality(C19_Visits({"failed", "submitted"})) > sweep.limit_in
    /\ sweep.broke = "limit"
    /\ sweep.candidates = <<"c">>
    /\ hasjob["c"]

\* C20: list_status and read_status agree in every state, also when several
\* markers coexist in one tracking directory: a child d is in list_status(S)
\* if and only if read_status(d) returns S, so that no child is listed under
\* two statuses.
C20_ListAgreesWithRead ==
    \A d \in Names, S \in Status :
        /\ d \in Range(list_status(S)) <=>
              (require_initialized(d) /\ read_status_markers(markers[d]) = S)
        /\ \A T \in Status :
              (d \in Range(list_status(S)) /\ d \in Range(list_status(T))) => S = T

====
